---- MODULE Spec2Model ----
(***************************************************************************)
(* Model of the TensorFlow pass tf-functional-control-flow-to-cfg          *)
(* (functional_control_flow_to_cfg.cc): lowering of tf.If and tf.While to  *)
(* basic blocks, branches and block arguments.                             *)
(***************************************************************************)
EXTENDS Integers, Sequences, FiniteSets, TLC

\* Bounds of the model.
MaxOps == 2      \* structured ops in the input function
MaxArity == 1    \* data operands / results / callee parameters
MaxIter == 2     \* times a cond callee may answer true while executing

VARIABLES
  input,   \* the function as handed to the pass
  fn,      \* the function being rewritten: block order, blocks, next op id
  module,  \* the module's name-to-function table
  pc,      \* the pass: "scan", "success", "failure" (signalPassFailure), "fault"
  cursor,  \* position of the Driver's block iterator in fn.order
  pre,     \* the function as it was when the latest lowering was entered
  log,     \* one record per lowering call made so far, latest last
  diags,   \* diagnostics emitted so far
  run      \* an execution of the rewritten function

vars == <<input, fn, module, pc, cursor, pre, log, diags, run>>

----------------------------------------------------------------------------
\* Types. A tensor type has an optional rank and an element type; the
\* scalar i1 produced by extract_element is not a tensor.

IntElem(w) == [kind |-> "int", width |-> w]
TensorTy(hr, r, e) == [tensor |-> TRUE, hasRank |-> hr, rank |-> r, elem |-> e]
ScalarTy(e) == [tensor |-> FALSE, hasRank |-> FALSE, rank |-> 0, elem |-> e]
NoType == ScalarTy([kind |-> "none", width |-> 0])

BoolScalarTensor == TensorTy(TRUE, 0, IntElem(1))
BoolVectorTensor == TensorTy(TRUE, 1, IntElem(1))
BoolUnranked == TensorTy(FALSE, 0, IntElem(1))
IntScalarTensor == TensorTy(TRUE, 0, IntElem(32))
IntUnranked == TensorTy(FALSE, 0, IntElem(32))
I1 == ScalarTy(IntElem(1))

CondTypes == {BoolScalarTensor, BoolVectorTensor, BoolUnranked, IntScalarTensor}
DataTypes == {IntScalarTensor, IntUnranked}

\* Type::isInteger(width)
isInteger(e, w) == e.kind = "int" /\ e.width = w

----------------------------------------------------------------------------
\* Values, operations, blocks.

Val(d, id, idx, ty) == [def |-> d, id |-> id, idx |-> idx, ty |-> ty]
Null == Val("null", 0, 0, NoType)               \* nullptr
Garbage(ty) == Val("garbage", 0, 0, ty)         \* out-of-range / wild read
Arg(b, i, ty) == Val("arg", b, i, ty)           \* Block::getArgument(i)
Res(o, i, ty) == Val("res", o, i, ty)           \* Operation::getResult(i)

MkOp(kind, id, operands, results, fns, succs, nTrue) ==
  [kind |-> kind, id |-> id, operands |-> operands, results |-> results,
   fns |-> fns, succs |-> succs, nTrue |-> nTrue]

IsStructured(op) == op.kind \in {"tf.If", "tf.While"}
IsTerminator(op) == op.kind \in {"br", "cond_br", "return"}

BlockIds(f) == 1..Len(f.blocks)
AllOps(f) == UNION {{f.blocks[b].ops[i] : i \in 1..Len(f.blocks[b].ops)} : b \in BlockIds(f)}

\* Operation::getBlock
getBlock(f, opId) ==
  CHOOSE b \in BlockIds(f) : \E i \in 1..Len(f.blocks[b].ops) : f.blocks[b].ops[i].id = opId

OpById(f, opId) == CHOOSE o \in AllOps(f) : o.id = opId

IndexIn(ops, opId) == CHOOSE i \in 1..Len(ops) : ops[i].id = opId

PosOf(seq, x) == CHOOSE i \in 1..Len(seq) : seq[i] = x

InsertAt(seq, i, x) == SubSeq(seq, 1, i - 1) \o <<x>> \o SubSeq(seq, i, Len(seq))

getResults(op) == [i \in 1..Len(op.results) |-> Res(op.id, i, op.results[i])]
getArguments(f, b) == [i \in 1..Len(f.blocks[b].args) |-> Arg(b, i, f.blocks[b].args[i])]

----------------------------------------------------------------------------
\* The rewriting state threaded through one lowering: the function, the
\* builder's insertion point, whether undefined behaviour (ub) or a failed
\* assert (af) was met on the way, the diagnostics emitted, and the locals
\* of LowerIfOp / LowerWhileOp (0 and Null while unset).

Rw(kind, f, opId) ==
  [kind |-> kind, op |-> opId, f |-> f,
   ip |-> [blk |-> 0, before |-> opId],
   ub |-> FALSE, af |-> FALSE, diag |-> <<>>, ret |-> FALSE,
   vals |-> <<>>, call_op |-> 0, cond |-> Val("null", 0, 0, NoType),
   orig_block |-> 0, then_block |-> 0, else_block |-> 0, merge_block |-> 0,
   cond_block |-> 0, body_block |-> 0, orig_block_tail |-> 0]
AtEnd(b) == [blk |-> b, before |-> 0]
Before(opId) == [blk |-> 0, before |-> opId]

\* OpBuilder::create<Op>: insert a new operation at the insertion point.
Create(s, kind, operands, results, fns, succs, nTrue) ==
  LET op == MkOp(kind, s.f.nextOp, operands, results, fns, succs, nTrue)
      b == IF s.ip.before = 0 THEN s.ip.blk ELSE getBlock(s.f, s.ip.before)
      ops == s.f.blocks[b].ops
      nops == IF s.ip.before = 0 THEN Append(ops, op)
              ELSE InsertAt(ops, IndexIn(ops, s.ip.before), op)
  IN [s EXCEPT !.f.blocks[b].ops = nops, !.f.nextOp = @ + 1]

\* A splitBlock that places the new block at the end of the function.
splitBlockAtEnd(f, opId) ==
  LET b == getBlock(f, opId)
      ops == f.blocks[b].ops
      i == IndexIn(ops, opId)
      nb == Len(f.blocks) + 1
  IN [f EXCEPT !.blocks = Append([@ EXCEPT ![b].ops = SubSeq(ops, 1, i - 1)],
                                 [args |-> <<>>, ops |-> SubSeq(ops, i, Len(ops))]),
               !.order = Append(@, nb)]

\* Block::splitBlock(op): op and everything after it move to a new block
\* placed right after the original one.
splitBlock(f, opId) ==
  LET b == getBlock(f, opId)
      ops == f.blocks[b].ops
      i == IndexIn(ops, opId)
      nb == Len(f.blocks) + 1
  IN [f EXCEPT !.blocks = Append([@ EXCEPT ![b].ops = SubSeq(ops, 1, i - 1)],
                                 [args |-> <<>>, ops |-> SubSeq(ops, i, Len(ops))]),
               !.order = InsertAt(@, PosOf(@, b) + 1, nb)]

\* A createBlock that places the new block after the given one.
createBlockAfter(s, insertBefore) ==
  [s EXCEPT !.f.blocks = Append(@, [args |-> <<>>, ops |-> <<>>]),
            !.f.order = InsertAt(@, PosOf(@, insertBefore) + 1, Len(s.f.blocks) + 1),
            !.ip = [blk |-> Len(s.f.blocks) + 1, before |-> 0]]

\* OpBuilder::createBlock(insertBefore): a new empty block before the given
\* one; the insertion point moves to its end.
createBlock(s, insertBefore) ==
  LET nb == Len(s.f.blocks) + 1
  IN [s EXCEPT !.f.blocks = Append(@, [args |-> <<>>, ops |-> <<>>]),
               !.f.order = InsertAt(@, PosOf(@, insertBefore), nb),
               !.ip = AtEnd(nb)]

\* Block::addArgument(type)
addArgument(f, b, ty) == [f EXCEPT !.blocks[b].args = Append(@, ty)]

RECURSIVE addArguments(_, _, _)
addArguments(f, b, tys) ==
  IF tys = <<>> THEN f ELSE addArguments(addArgument(f, b, Head(tys)), b, Tail(tys))

SameValue(a, b) == a.def = b.def /\ a.id = b.id /\ a.idx = b.idx

\* Value::replaceAllUsesWith
replaceAllUsesWith(f, old, new) ==
  [f EXCEPT !.blocks = [b \in DOMAIN @ |->
      [@[b] EXCEPT !.ops = [i \in DOMAIN @ |->
          [@[i] EXCEPT !.operands = [k \in DOMAIN @ |->
              IF SameValue(@[k], old) THEN new ELSE @[k]]]]]]]

\* An erase that leaves the operation in its block.
eraseNothing(f, opId) == f

\* Operation::erase
erase(f, opId) ==
  LET b == getBlock(f, opId)
      ops == f.blocks[b].ops
      i == IndexIn(ops, opId)
  IN [f EXCEPT !.blocks[b].ops = SubSeq(ops, 1, i - 1) \o SubSeq(ops, i + 1, Len(ops))]

----------------------------------------------------------------------------
\* Module::getNamedFunction: the name-to-function table; an absent name
\* yields nullptr.

Sig(ins, outs) == [present |-> TRUE, ins |-> ins, outs |-> outs]
NoFn == [present |-> FALSE, ins |-> <<>>, outs |-> <<>>]
getNamedFunction(table, name) == table[name]

\* What a lambda `[&](int i) { return x->get...(i); }` yields on a list of
\* n values: element i, or a wild read past the end.
GetVal(vals, i, u) == IF i \in 1..Len(vals) THEN vals[i] ELSE Garbage(u.ty)

\* The outcomes of undefined behaviour left to the build: whether a wild
\* access traps (fault), whether asserts are compiled out (ndebug), and what
\* a wild read yields (a value of type ty, a signature sig).
UBChoices ==
  {[fault |-> ft, ndebug |-> nd, ty |-> t, sig |-> sg] :
     ft \in BOOLEAN, nd \in BOOLEAN, t \in DataTypes,
     sg \in {Sig(<<>>, <<>>), Sig(<<IntUnranked>>, <<IntUnranked>>)}}

\* Function::getType on the looked-up function; a wild read on nullptr.
getType(fnv, u) == IF fnv.present THEN fnv ELSE u.sig

----------------------------------------------------------------------------
\* A LowerCondition that does not ask whether the tensor is ranked.
LowerConditionIgnoringHasRank(s, value) ==
  IF value.ty.rank # 0 \/ ~isInteger(value.ty.elem, 1)
  THEN [s EXCEPT !.diag = Append(@, "only supports zero-D bool tensors now"),
                 !.cond = Val("null", 0, 0, NoType)]
  ELSE [Create(s, "extract_element", <<value>>, <<I1>>, <<>>, <<>>, 0)
          EXCEPT !.cond = Res(s.f.nextOp, 1, I1)]

\* static Value* LowerCondition(Location, Value*, OpBuilder*): the state
\* after the call, with the returned value in cond.
LowerCondition(s, value) ==
  IF ~value.ty.hasRank \/ value.ty.rank # 0 \/ ~isInteger(value.ty.elem, 1)
  THEN [s EXCEPT !.diag = Append(@, "only supports zero-D bool tensors now"),
                 !.cond = Null]
  ELSE [Create(s, "extract_element", <<value>>, <<I1>>, <<>>, <<>>, 0)
          EXCEPT !.cond = Res(s.f.nextOp, 1, I1)]

\* A round that casts whether or not the types differ.
PushAlwaysCast(s, val, expected) ==
  [Create(s, "tensor_cast", <<val>>, <<expected>>, <<>>, <<>>, 0)
     EXCEPT !.vals = Append(@, Res(s.f.nextOp, 1, expected))]

\* One round of the loops of CallFn and PrepareValsForJump: val is cast to
\* the expected type when its type differs, and pushed on the list.
PushAdapted(s, val, expected) ==
  IF val.ty # expected
  THEN [Create(s, "tensor_cast", <<val>>, <<expected>>, <<>>, <<>>, 0)
          EXCEPT !.vals = Append(@, Res(s.f.nextOp, 1, expected))]
  ELSE [s EXCEPT !.vals = Append(@, val)]

\* The argument loop of CallFn: operand i is get_arg(i), cast to the
\* callee's input type i when its type differs.
RECURSIVE CallFnOperands(_, _, _, _, _)
CallFnOperands(s, get_arg, ins, i, u) ==
  IF i > Len(ins) THEN s
  ELSE CallFnOperands(PushAdapted([s EXCEPT !.ub = @ \/ i > Len(get_arg)],
                                  GetVal(get_arg, i, u), ins[i]),
                      get_arg, ins, i + 1, u)

CallFnEmit(s, name, outs) ==
  [Create(s, "call", s.vals, outs, <<name>>, <<>>, 0) EXCEPT !.call_op = s.f.nextOp]

\* static Operation* CallFn(Location, get_arg, Function* fn, OpBuilder*):
\* the state after the call, with the CallOp in call_op.
CallFn(s, get_arg, name, fnv, u) ==
  CallFnEmit(CallFnOperands([s EXCEPT !.ub = @ \/ ~fnv.present, !.vals = <<>>],
                            get_arg, getType(fnv, u).ins, 1, u),
             name, getType(fnv, u).outs)

\* A preparation that hands the values over as they come, unadapted.
PrepareValsUnadapted(s, get_val, block, u) == [s EXCEPT !.vals = get_val]

RECURSIVE PrepareValsLoop(_, _, _, _, _)
PrepareValsLoop(s, get_val, argTys, i, u) ==
  IF i > Len(argTys) THEN s
  ELSE PrepareValsLoop(PushAdapted([s EXCEPT !.ub = @ \/ i > Len(get_val)],
                                   GetVal(get_val, i, u), argTys[i]),
                       get_val, argTys, i + 1, u)

\* static SmallVector<Value*, 4> PrepareValsForJump(Location, get_val, Block*,
\* OpBuilder*): the state after the call, with the returned list in vals.
PrepareValsForJump(s, get_val, block, u) ==
  PrepareValsLoop([s EXCEPT !.vals = <<>>], get_val, s.f.blocks[block].args, 1, u)

\* A jump that emits no branch.
FallThrough(s, block) == s

BranchTo(s, block) == Create(s, "br", s.vals, <<>>, <<>>, <<block>>, 0)

\* static void JumpToBlock(Location, get_arg, Block*, OpBuilder*)
JumpToBlock(s, get_arg, block, u) ==
  BranchTo(PrepareValsForJump(s, get_arg, block, u), block)

\* A round that leaves the uses of the result as they are.
ReplaceResultKeepingUses(s, arg, result) == s

\* One round of the loop of ReplaceOpResultWithBlockArgs.
ReplaceResult(s, arg, result) ==
  IF arg.ty # result.ty
  THEN [Create(s, "tensor_cast", <<arg>>, <<result.ty>>, <<>>, <<>>, 0)
          EXCEPT !.f = replaceAllUsesWith(@, result, Res(s.f.nextOp, 1, result.ty))]
  ELSE [s EXCEPT !.f = replaceAllUsesWith(@, result, arg)]

RECURSIVE ReplaceResultsLoop(_, _, _, _, _)
ReplaceResultsLoop(s, results, block, i, u) ==
  IF i > Len(results) THEN s
  ELSE ReplaceResultsLoop(
         ReplaceResult([s EXCEPT !.ub = @ \/ i > Len(s.f.blocks[block].args)],
                       GetVal(getArguments(s.f, block), i, u), results[i]),
         results, block, i + 1, u)

\* static void ReplaceOpResultWithBlockArgs(Location, Operation*, Block*, OpBuilder*)
ReplaceOpResultWithBlockArgs(s, op, block, u) ==
  ReplaceResultsLoop([s EXCEPT !.af = @ \/ Len(op.results) # Len(s.f.blocks[block].args)],
                     getResults(op), block, 1, u)

----------------------------------------------------------------------------
\* static bool LowerIfOp(TF::IfOp op), in the order of its statements.

\* Lines 172-173: lower the condition; a null result makes LowerIfOp
\* return true.
ReturnTrueIfNull(s) == [s EXCEPT !.ret = (s.cond = Null)]

IfCondition(s, op) == ReturnTrueIfNull(LowerCondition(s, op.operands[1]))

\* Lines 181-182: split the block before the 'if'.
IfSplit(s) ==
  [s EXCEPT !.orig_block = getBlock(s.f, s.op),
            !.f = splitBlock(@, s.op),
            !.merge_block = Len(s.f.blocks) + 1]

\* Lines 186-188: the merge block gets one argument per result, and the
\* uses of the results are replaced by them.
IfMergeArgs(s, op, u) ==
  ReplaceOpResultWithBlockArgs(
    [s EXCEPT !.f = addArguments(@, s.merge_block, op.results)], op, s.merge_block, u)

\* JumpToBlock with get_*_result, the results of the call just emitted.
JumpToCallResults(s, block, u) ==
  JumpToBlock(s, getResults(OpById(s.f, s.call_op)), block, u)

\* Lines 195-199 and 202-206: a new block before the merge block holding
\* the call of the callee on operands 1.. of the op and the jump to the
\* merge block with the call's results.
IfCallAndJump(s, name, fnv, u) ==
  JumpToCallResults(CallFn(s, Tail(OpById(s.f, s.op).operands), name, fnv, u),
                    s.merge_block, u)

IfThen(s, op, table, u) ==
  IfCallAndJump([createBlock(s, s.merge_block) EXCEPT !.then_block = Len(s.f.blocks) + 1],
                op.fns[1], getNamedFunction(table, op.fns[1]), u)

IfElse(s, op, table, u) ==
  IfCallAndJump([createBlock(s, s.merge_block) EXCEPT !.else_block = Len(s.f.blocks) + 1],
                op.fns[2], getNamedFunction(table, op.fns[2]), u)

\* An end of LowerIfOp whose branch has its targets the other way round.
IfFinishSwapped(s) ==
  [Create([s EXCEPT !.ip = AtEnd(s.orig_block)], "cond_br", <<s.cond>>, <<>>, <<>>,
          <<s.else_block, s.then_block>>, 0)
     EXCEPT !.f = erase(@, s.op)]

\* Lines 210-217: the conditional branch at the end of the original block,
\* and the erasure of the op.
IfFinish(s) ==
  [Create([s EXCEPT !.ip = AtEnd(s.orig_block)], "cond_br", <<s.cond>>, <<>>, <<>>,
          <<s.then_block, s.else_block>>, 0)
     EXCEPT !.f = erase(@, s.op)]

IfRewrite(s, op, table, u) ==
  IfFinish(IfElse(IfThen(IfMergeArgs(IfSplit(s), op, u), op, table, u), op, table, u))

\* A LowerIfOp that has split the block by the time it returns failure.
LowerIfOpSplitFirst(s, op, table, u) ==
  IF s.ret THEN [s EXCEPT !.f = splitBlock(@, s.op)] ELSE IfRewrite(s, op, table, u)

LowerIfOpFrom(s, op, table, u) == IF s.ret THEN s ELSE IfRewrite(s, op, table, u)

LowerIfOp(f, opId, table, u) ==
  LowerIfOpFrom(IfCondition(Rw("tf.If", f, opId), OpById(f, opId)),
                OpById(f, opId), table, u)

----------------------------------------------------------------------------
\* static bool LowerWhileOp(TF::WhileOp op), in the order of its statements.

\* Lines 255-258: split the block at the op and create the cond and body
\* blocks before the tail.
WhileSplit(s) ==
  [s EXCEPT !.orig_block = getBlock(s.f, s.op),
            !.f = splitBlock(@, s.op),
            !.orig_block_tail = Len(s.f.blocks) + 1]

WhileCondBlock(s) ==
  [createBlock(s, s.orig_block_tail) EXCEPT !.cond_block = Len(s.f.blocks) + 1]

WhileBodyBlock(s) ==
  [createBlock(s, s.orig_block_tail) EXCEPT !.body_block = Len(s.f.blocks) + 1]

\* Block arguments in which the tail mirrors the cond callee.
WhileArgsTailFromCond(s, cond_fn, body_fn, u) ==
  [s EXCEPT !.ub = @ \/ ~cond_fn.present \/ ~body_fn.present,
            !.f = addArguments(
                    addArguments(
                      addArguments(@, s.cond_block, getType(cond_fn, u).ins),
                      s.body_block, getType(body_fn, u).ins),
                    s.orig_block_tail, getType(cond_fn, u).ins)]

\* Lines 265-271: block arguments from the callees' input types.
WhileArgs(s, cond_fn, body_fn, u) ==
  [s EXCEPT !.ub = @ \/ ~cond_fn.present \/ ~body_fn.present,
            !.f = addArguments(
                    addArguments(
                      addArguments(@, s.cond_block, getType(cond_fn, u).ins),
                      s.body_block, getType(body_fn, u).ins),
                    s.orig_block_tail, getType(body_fn, u).ins)]

\* Lines 277-278: jump from the head to the cond block with the operands.
WhileHead(s, u) ==
  JumpToBlock([s EXCEPT !.ip = AtEnd(s.orig_block)],
              OpById(s.f, s.op).operands, s.cond_block, u)

\* Lines 283-286: call the cond callee on the cond block's arguments.
WhileCondCall(s, name, cond_fn, u) ==
  CallFn([s EXCEPT !.ip = AtEnd(s.cond_block)],
         getArguments(s.f, s.cond_block), name, cond_fn, u)

\* Lines 288-289: the call must have one result, which is lowered to i1.
WhileCondition(s, cond_call_op, u) ==
  LowerCondition([s EXCEPT !.af = @ \/ Len(cond_call_op.results) # 1,
                           !.ub = @ \/ Len(cond_call_op.results) = 0],
                 GetVal(getResults(cond_call_op), 1, u))

\* A conditional branch that leaves the loop when the condition holds.
CondBranchSwapped(s) ==
  Create([s EXCEPT !.ub = @ \/ s.cond = Null], "cond_br",
         <<s.cond>> \o s.vals \o s.vals, <<>>, <<>>,
         <<s.orig_block_tail, s.body_block>>, Len(s.vals))

\* A conditional branch that hands the tail the operands of the op, the
\* values from before the loop.
CondBranchInitial(s) ==
  Create([s EXCEPT !.ub = @ \/ s.cond = Null], "cond_br",
         <<s.cond>> \o s.vals \o OpById(s.f, s.op).operands, <<>>, <<>>,
         <<s.body_block, s.orig_block_tail>>, Len(s.vals))

\* Lines 290-293: one list of operands, prepared for the body block, goes
\* to both targets of the conditional branch.
CondBranch(s) ==
  Create([s EXCEPT !.ub = @ \/ s.cond = Null], "cond_br",
         <<s.cond>> \o s.vals \o s.vals, <<>>, <<>>,
         <<s.body_block, s.orig_block_tail>>, Len(s.vals))

WhileCondBranch(s, u) ==
  CondBranch(PrepareValsForJump(s, getArguments(s.f, s.cond_block), s.body_block, u))

\* Lines 297-302: call the body callee on the body block's arguments and
\* jump back to the cond block with its results.
WhileBody(s, name, body_fn, u) ==
  JumpToCallResults(CallFn([s EXCEPT !.ip = AtEnd(s.body_block)],
                           getArguments(s.f, s.body_block), name, body_fn, u),
                    s.cond_block, u)

\* Lines 306-310: replace the uses of the results by the tail's arguments,
\* casts going before the first operation of the tail, and erase the op.
EraseOp(s) == [s EXCEPT !.f = erase(@, s.op)]

WhileFinish(s, op, u) ==
  EraseOp(ReplaceOpResultWithBlockArgs(
            [s EXCEPT !.ip = Before(s.f.blocks[s.orig_block_tail].ops[1].id)],
            op, s.orig_block_tail, u))

WhileCond(s, op, table, u) ==
  WhileCondBranch(
    WhileCondition(s, OpById(s.f, s.call_op), u), u)

WhileLoop(s, op, table, u) ==
  WhileFinish(
    WhileBody(
      WhileCond(
        WhileCondCall(
          WhileHead(
            WhileArgs(WhileBodyBlock(WhileCondBlock(WhileSplit(s))),
                      getNamedFunction(table, op.fns[1]),
                      getNamedFunction(table, op.fns[2]), u),
            u),
          op.fns[1], getNamedFunction(table, op.fns[1]), u),
        op, table, u),
      op.fns[2], getNamedFunction(table, op.fns[2]), u),
    op, u)

LowerWhileOp(f, opId, table, u) ==
  WhileLoop(Rw("tf.While", f, opId), OpById(f, opId), table, u)

----------------------------------------------------------------------------
\* The input functions. A function has one entry block, whose first
\* argument is the condition tensor of its tf.If ops and whose other
\* arguments are data; its structured ops form a chain, each consuming the
\* data produced by the one before; the chain may be cut into two blocks.

Repeat(x, n) == [i \in 1..n |-> x]

RECURSIVE DataAfter(_, _, _, _)
DataAfter(j, n, argTy, resTy) ==
  IF j = 0 THEN [i \in 1..n |-> Arg(1, i + 1, argTy)]
  ELSE [i \in 1..n |-> Res(j, i, resTy)]

StructuredOp(kinds, j, n, condTy, argTy, resTy) ==
  IF kinds[j] = "tf.If"
  THEN MkOp("tf.If", j, <<Arg(1, 1, condTy)>> \o DataAfter(j - 1, n, argTy, resTy),
            Repeat(resTy, n), <<"then_fn", "else_fn">>, <<>>, 0)
  ELSE MkOp("tf.While", j, DataAfter(j - 1, n, argTy, resTy),
            Repeat(resTy, n), <<"cond_fn", "body_fn">>, <<>>, 0)

BuildFunction(kinds, cut, n, condTy, argTy, resTy) ==
  LET m == Len(kinds)
      sops == [j \in 1..m |-> StructuredOp(kinds, j, n, condTy, argTy, resTy)]
      ret == MkOp("return", m + 1, DataAfter(m, n, argTy, resTy), <<>>, <<>>, <<>>, 0)
      entryArgs == <<condTy>> \o Repeat(argTy, n)
  IN IF cut = 0
     THEN [order |-> <<1>>,
           blocks |-> <<[args |-> entryArgs, ops |-> Append(sops, ret)]>>,
           nextOp |-> m + 2]
     ELSE [order |-> <<1, 2>>,
           blocks |-> <<[args |-> entryArgs,
                         ops |-> Append(SubSeq(sops, 1, cut),
                                        MkOp("br", m + 2, <<>>, <<>>, <<>>, <<2>>, 0))],
                        [args |-> <<>>,
                         ops |-> Append(SubSeq(sops, cut + 1, m), ret)]>>,
           nextOp |-> m + 3]

TypeLists == {Repeat(t, k) : t \in DataTypes, k \in 0..MaxArity}
Sigs == {Sig(i, o) : i \in TypeLists, o \in TypeLists}
CondSigs == {Sig(i, o) : i \in TypeLists,
                         o \in {<<c>> : c \in CondTypes} \cup
                               {<<>>, <<BoolScalarTensor, BoolScalarTensor>>}}

Table(t, e, c, b) ==
  [name \in {"then_fn", "else_fn", "cond_fn", "body_fn"} |->
     CASE name = "then_fn" -> t [] name = "else_fn" -> e
       [] name = "cond_fn" -> c [] OTHER -> b]

Other(ty) == IF ty = IntScalarTensor THEN IntUnranked ELSE IntScalarTensor

\* A function with a single tf.If: every pair of then/else callees in which
\* one has the matching signature or both are alike.
OneIf ==
  {[f |-> BuildFunction(<<"tf.If">>, 0, n, c, a, r), m |-> Table(t, e, NoFn, NoFn)] :
     <<n, c, a, r, t, e>> \in
       {x \in (0..MaxArity) \X CondTypes \X DataTypes \X DataTypes
                \X (Sigs \cup {NoFn}) \X (Sigs \cup {NoFn}) :
          LET match == Sig(Repeat(x[3], x[1]), Repeat(x[4], x[1]))
          IN /\ x[5] = match \/ x[6] = match \/ x[5] = x[6]
             /\ x[2] # BoolScalarTensor => x[5] \in {match, NoFn} /\ x[6] = match}}

\* A function with a single tf.While, with every cond and body callee.
OneWhile ==
  {[f |-> BuildFunction(<<"tf.While">>, 0, n, BoolScalarTensor, a, r),
    m |-> Table(NoFn, NoFn, c, b)] :
     <<n, a, r, c, b>> \in (0..MaxArity) \X DataTypes \X DataTypes
                           \X (CondSigs \cup {NoFn}) \X (Sigs \cup {NoFn})}

\* Functions with several structured ops, under a few modules: matching
\* signatures, signatures that need casts, a cond callee with an unsupported
\* result, an absent else callee.
KindSeqs == UNION {[1..k -> {"tf.If", "tf.While"}] : k \in 2..MaxOps}

Profiles(n, a) ==
  LET exact == Sig(Repeat(a, n), Repeat(a, n))
      loose == Sig(Repeat(Other(a), n), Repeat(Other(a), n))
      cond(ty, r) == Sig(Repeat(ty, n), <<r>>)
  IN {Table(exact, exact, cond(a, BoolScalarTensor), exact),
      Table(loose, exact, cond(Other(a), BoolScalarTensor), loose),
      Table(exact, exact, cond(a, BoolVectorTensor), exact),
      Table(exact, NoFn, cond(a, BoolScalarTensor), exact)}

Several ==
  {[f |-> BuildFunction(x[1], x[2], x[3], x[4], x[5], x[5]), m |-> x[6]] :
     x \in {y \in KindSeqs \X (0..MaxOps) \X (0..MaxArity) \X CondTypes \X DataTypes
                  \X UNION {Profiles(n, a) : n \in 0..MaxArity, a \in DataTypes} :
              /\ y[2] < Len(y[1])
              /\ y[6] \in Profiles(y[3], y[5])}}

Inputs == OneIf \cup OneWhile \cup Several

----------------------------------------------------------------------------
\* Execution of a function in CFG form. Runtime data are terms: inputs,
\* the two booleans, and results of callees applied to terms.

Term(f, i, args) == [f |-> f, i |-> i, args |-> args]
TrueV == Term("true", 0, <<>>)
FalseV == Term("false", 0, <<>>)
Key(v) == <<v.def, v.id, v.idx>>
Bind(env, vals, data) ==
  [k \in {Key(vals[i]) : i \in 1..Len(vals)} |->
     data[CHOOSE i \in 1..Len(vals) : Key(vals[i]) = k]] @@ env
Read(env, vals) == [i \in 1..Len(vals) |-> env[Key(vals[i])]]

Idle == [st |-> "idle", cur |-> 0, env |-> <<>>, trace |-> <<>>, answers |-> <<>>,
         fuel |-> 0, out |-> <<>>]

\* The operations of a block before its terminator, in order. A call whose
\* callee returns a zero-D bool tensor (a cond callee) answers `ans`.
RECURSIVE EvalOps(_, _, _, _)
EvalOps(ops, i, env, ans) ==
  LET op == ops[i]
  IN IF IsTerminator(op) THEN env
     ELSE IF op.kind \in {"extract_element", "tensor_cast"}
     THEN EvalOps(ops, i + 1, Bind(env, getResults(op), Read(env, op.operands)), ans)
     ELSE \* call
       LET args == Read(env, op.operands)
           outs == [k \in 1..Len(op.results) |->
                      IF op.results[k] = BoolScalarTensor
                      THEN (IF ans THEN TrueV ELSE FalseV)
                      ELSE Term(op.fns[1], k, args)]
       IN EvalOps(ops, i + 1, Bind(env, getResults(op), outs), ans)

Terminator(f, b) == f.blocks[b].ops[Len(f.blocks[b].ops)]
AsksCond(f, b) ==
  \E i \in 1..Len(f.blocks[b].ops) :
     f.blocks[b].ops[i].kind = "call" /\ BoolScalarTensor \in
        {f.blocks[b].ops[i].results[k] : k \in 1..Len(f.blocks[b].ops[i].results)}

Executable(f) ==
  \A op \in AllOps(f) :
     /\ ~IsStructured(op)
     /\ \A k \in 1..Len(op.operands) : op.operands[k].def \in {"arg", "res"}

----------------------------------------------------------------------------
\* The Driver: FunctionalControlFlowToCFG::runOnFunction.

FirstStructured(ops) ==
  IF \E i \in 1..Len(ops) : IsStructured(ops[i])
  THEN CHOOSE i \in 1..Len(ops) :
         IsStructured(ops[i]) /\ \A k \in 1..(i - 1) : ~IsStructured(ops[k])
  ELSE 0

Current == fn.blocks[fn.order[cursor]].ops
Scanning == pc = "scan" /\ cursor <= Len(fn.order)

\* Whether the process stops inside a lowering: a wild access that traps,
\* or a failed assert in a build that keeps asserts.
Faults(r, u) == (r.ub /\ u.fault) \/ (r.af /\ ~u.ndebug)

Entry(r, fault) ==
  [kind |-> r.kind, op |-> r.op,
   status |-> IF fault THEN "fault" ELSE IF r.ret THEN "failure" ELSE "success",
   cond |-> r.cond, ub |-> r.ub, af |-> r.af, diag |-> r.diag,
   orig_block |-> r.orig_block, then_block |-> r.then_block,
   else_block |-> r.else_block, merge_block |-> r.merge_block,
   cond_block |-> r.cond_block, body_block |-> r.body_block,
   orig_block_tail |-> r.orig_block_tail]

\* A Driver that resumes the scan after the blocks a lowering created.
DispatchPastNewBlocks(r, u) ==
  /\ pre' = fn
  /\ log' = Append(log, Entry(r, Faults(r, u)))
  /\ diags' = diags \o r.diag
  /\ IF Faults(r, u)
     THEN pc' = "fault" /\ fn' = fn /\ cursor' = cursor
     ELSE IF r.ret
     THEN pc' = "failure" /\ fn' = r.f /\ cursor' = cursor
     ELSE pc' = pc /\ fn' = r.f /\ cursor' = cursor + 4
  /\ UNCHANGED <<input, module, run>>

\* A Driver that goes on scanning after a lowering has returned failure.
DispatchIgnoringFailure(r, u) ==
  /\ pre' = fn
  /\ log' = Append(log, Entry(r, Faults(r, u)))
  /\ diags' = diags \o r.diag
  /\ IF Faults(r, u)
     THEN pc' = "fault" /\ fn' = fn /\ cursor' = cursor
     ELSE pc' = pc /\ fn' = r.f /\ cursor' = cursor + 1
  /\ UNCHANGED <<input, module, run>>

\* The effect of one lowering call on the pass: a fault ends the process
\* (the function is no longer observable and is left as entered), a true
\* return signals pass failure, a false return lets the scan go on with
\* the next block of the list.
Dispatch(r, u) ==
  /\ pre' = fn
  /\ log' = Append(log, Entry(r, Faults(r, u)))
  /\ diags' = diags \o r.diag
  /\ IF Faults(r, u)
     THEN pc' = "fault" /\ fn' = fn /\ cursor' = cursor
     ELSE IF r.ret
     THEN pc' = "failure" /\ fn' = r.f /\ cursor' = cursor
     ELSE pc' = pc /\ fn' = r.f /\ cursor' = cursor + 1
  /\ UNCHANGED <<input, module, run>>

SkipBlock ==
  /\ Scanning
  /\ FirstStructured(Current) = 0
  /\ cursor' = cursor + 1
  /\ UNCHANGED <<input, fn, module, pc, pre, log, diags, run>>

LowerIf ==
  /\ Scanning
  /\ FirstStructured(Current) # 0
  /\ Current[FirstStructured(Current)].kind = "tf.If"
  /\ \E u \in UBChoices :
       Dispatch(LowerIfOp(fn, Current[FirstStructured(Current)].id, module, u), u)

LowerWhile ==
  /\ Scanning
  /\ FirstStructured(Current) # 0
  /\ Current[FirstStructured(Current)].kind = "tf.While"
  /\ \E u \in UBChoices :
       Dispatch(LowerWhileOp(fn, Current[FirstStructured(Current)].id, module, u), u)

Finish ==
  /\ pc = "scan"
  /\ cursor > Len(fn.order)
  /\ pc' = "success"
  /\ UNCHANGED <<input, fn, module, cursor, pre, log, diags, run>>

\* Running the rewritten function on some inputs.
ExecStart ==
  /\ pc = "success"
  /\ run.st = "idle"
  /\ Executable(fn)
  /\ \E c \in BOOLEAN :
       LET entry == fn.order[1]
           args == getArguments(fn, entry)
           data == [i \in 1..Len(args) |->
                      IF i = 1 /\ args[i].ty = BoolScalarTensor
                      THEN (IF c THEN TrueV ELSE FalseV)
                      ELSE Term("in", i, <<>>)]
       IN run' = [st |-> "running", cur |-> entry, env |-> Bind(<<>>, args, data),
                  trace |-> <<>>, answers |-> <<>>, fuel |-> MaxIter, out |-> <<>>]
  /\ UNCHANGED <<input, fn, module, pc, cursor, pre, log, diags>>

ExecBlock ==
  /\ run.st = "running"
  /\ \E ans \in BOOLEAN :
       /\ ans => run.fuel > 0
       /\ ~AsksCond(fn, run.cur) => ~ans
       /\ LET b == run.cur
              env == EvalOps(fn.blocks[b].ops, 1, run.env, ans)
              t == Terminator(fn, b)
              taken == IF t.kind = "cond_br" /\ env[Key(t.operands[1])] # TrueV THEN 2 ELSE 1
              passed == IF t.kind = "br" THEN t.operands
                        ELSE IF taken = 1 THEN SubSeq(t.operands, 2, 1 + t.nTrue)
                        ELSE SubSeq(t.operands, 2 + t.nTrue, Len(t.operands))
              seen == [run EXCEPT !.trace = Append(@, b),
                                  !.answers = IF AsksCond(fn, b)
                                              THEN Append(@, <<b, ans>>) ELSE @,
                                  !.fuel = IF ans THEN @ - 1 ELSE @]
          IN IF t.kind = "return"
             THEN run' = [seen EXCEPT !.st = "returned", !.env = env,
                                      !.out = Read(env, t.operands)]
             ELSE run' = [seen EXCEPT !.cur = t.succs[taken],
                                      !.env = Bind(env, getArguments(fn, t.succs[taken]),
                                                   Read(env, passed))]
  /\ UNCHANGED <<input, fn, module, pc, cursor, pre, log, diags>>

Init ==
  /\ \E in \in Inputs : input = in.f /\ fn = in.f /\ module = in.m
  /\ pc = "scan"
  /\ cursor = 1
  /\ pre = fn
  /\ log = <<>>
  /\ diags = <<>>
  /\ run = Idle

Next == SkipBlock \/ LowerIf \/ LowerWhile \/ Finish \/ ExecStart \/ ExecBlock

Spec == Init /\ [][Next]_vars

----------------------------------------------------------------------------
\* Properties.

StructuredOps(f) == {op \in AllOps(f) : IsStructured(op)}
NumStructured(f) == Cardinality(StructuredOps(f))
Latest == log[Len(log)]
Successes == Cardinality({i \in DOMAIN log : log[i].status = "success"})
UnsupportedCondition == "only supports zero-D bool tensors now"
CalleeNotFound == "callee not found"

\* A zero-D tensor of i1.
IsZeroDBool(ty) == ty.tensor /\ ty.hasRank /\ ty.rank = 0 /\ ty.elem = IntElem(1)

\* Every condition is a zero-D bool tensor and every callee exists with as
\* many inputs and results as the op that names it has data operands and
\* results.
MatchingCallee(name, nIn, nOut) ==
  /\ module[name].present
  /\ Len(module[name].ins) = nIn
  /\ Len(module[name].outs) = nOut

EligibleOp(op) ==
  IF op.kind = "tf.If"
  THEN /\ IsZeroDBool(op.operands[1].ty)
       /\ MatchingCallee(op.fns[1], Len(op.operands) - 1, Len(op.results))
       /\ MatchingCallee(op.fns[2], Len(op.operands) - 1, Len(op.results))
  ELSE /\ MatchingCallee(op.fns[1], Len(op.operands), 1)
       /\ IsZeroDBool(module[op.fns[1]].outs[1])
       /\ MatchingCallee(op.fns[2], Len(op.operands), Len(op.operands))
       /\ Len(op.results) = Len(op.operands)

Eligible == \A op \in StructuredOps(input) : EligibleOp(op)

\* C1: on a function whose conditions are all zero-D bool tensors and whose
\* callees all exist with matching signatures, the Driver neither fails
\* nor faults, and when it has finished no tf.If and no tf.While is left,
\* wherever the structured ops were.
C1_NoStructuredOpLeft ==
  Eligible => /\ pc \notin {"failure", "fault"}
              /\ pc = "success" => StructuredOps(fn) = {}

\* Two structured ops of both kinds in one block, both lowered.
C1_Witness ==
  /\ Eligible
  /\ pc = "success"
  /\ Len(input.order) = 1
  /\ {op.kind : op \in StructuredOps(input)} = {"tf.If", "tf.While"}
  /\ Len(log) = 2
  /\ StructuredOps(fn) = {}

HasAbsentCallee(op) == \E k \in DOMAIN op.fns : ~module[op.fns[k]].present

\* C2 (as claimed): whenever LowerCondition reports an unsupported
\* condition during a lowering whose callees exist (for a tf.While, the
\* single result of the cond callee is no zero-D bool tensor), that
\* lowering returns failure, the pass is failed, and no conditional branch
\* was emitted for the construct.
CondBranchesFor(e) ==
  {op \in AllOps(fn) :
     /\ op.kind = "cond_br"
     /\ e.cond_block # 0
     /\ getBlock(fn, op.id) = e.cond_block}

C2_ConditionFailureFailsPass ==
  \A i \in DOMAIN log :
     (/\ UnsupportedCondition \in {log[i].diag[k] : k \in DOMAIN log[i].diag}
      /\ ~log[i].af
      /\ ~HasAbsentCallee(OpById(input, log[i].op))) =>
        /\ log[i].status = "failure"
        /\ pc = "failure"
        /\ CondBranchesFor(log[i]) = {}

\* C3 (as claimed): a lowering of an op one of whose callees is absent from
\* the module (and, for a tf.If, whose condition is supported) fails with
\* CalleeNotFound and never uses the missing function.
C3_MissingCalleeFails ==
  \A i \in DOMAIN log :
     (/\ HasAbsentCallee(OpById(input, log[i].op))
      /\ log[i].kind = "tf.If" => IsZeroDBool(OpById(input, log[i].op).operands[1].ty)) =>
        /\ log[i].status = "failure"
        /\ log[i].diag = <<CalleeNotFound>>
        /\ ~log[i].ub

\* C10: every lowering that returns success removes exactly one structured
\* op and adds none, so the lowerings never outnumber the structured ops
\* of the input; and every step of the scan decreases a measure that is
\* never negative, although the block list grows: the Driver terminates.
Variant == 4 * NumStructured(fn) + (Len(fn.order) + 1 - cursor)

C10_Counts ==
  /\ NumStructured(fn) + Successes = NumStructured(input)
  /\ Len(log) <= NumStructured(input)
  /\ Variant >= 0

C10_DriverTerminates ==
  /\ []C10_Counts
  /\ [][pc = "scan" => (pc' # "scan" \/ Variant' < Variant)]_vars

\* The scan has finished after two lowerings, over a longer block list.
C10_Witness ==
  /\ pc = "success"
  /\ Len(log) = 2
  /\ NumStructured(input) = 2
  /\ Len(fn.order) = Len(input.order) + 6

----------------------------------------------------------------------------
\* The latest lowering, seen from the function before it (pre) and after
\* it (fn).

JustLowered(kind) == log # <<>> /\ Latest.kind = kind /\ Latest.status = "success"
LoweredOp == OpById(pre, Latest.op)
Slots(f) == UNION {{<<op.id, k>> : k \in DOMAIN op.operands} : op \in AllOps(f)}
OperandAt(f, slot) == OpById(f, slot[1]).operands[slot[2]]
IsResultOf(v, opId) == v.def = "res" /\ v.id = opId
Kinds(f, b) == [i \in DOMAIN f.blocks[b].ops |-> f.blocks[b].ops[i].kind]
NewOps == {op \in AllOps(fn) : op.id >= pre.nextOp}
TypesOf(vals) == [i \in DOMAIN vals |-> vals[i].ty]
CountOf(f, kind) == Cardinality({op \in AllOps(f) : op.kind = kind})

\* C6: after the lowering of a tf.If with N results the merge block has
\* exactly N arguments, argument i of the type of result i; every operand
\* slot that referenced result i references merge-block argument i; and no
\* operation references a result of the erased op.
C6_IfResultsBecomeMergeArgs ==
  JustLowered("tf.If") =>
    /\ fn.blocks[Latest.merge_block].args = LoweredOp.results
    /\ \A slot \in Slots(pre) : \A i \in DOMAIN LoweredOp.results :
         SameValue(OperandAt(pre, slot), Res(Latest.op, i, NoType)) =>
            OperandAt(fn, slot) = Arg(Latest.merge_block, i, LoweredOp.results[i])
    /\ \A slot \in Slots(fn) : ~IsResultOf(OperandAt(fn, slot), Latest.op)

\* A tf.If with a result that was used has been lowered.
C6_Witness ==
  /\ JustLowered("tf.If")
  /\ LoweredOp.results # <<>>
  /\ \E slot \in Slots(pre) : IsResultOf(OperandAt(pre, slot), Latest.op)
  /\ \E slot \in Slots(fn) : OperandAt(fn, slot).def = "arg"
                             /\ OperandAt(fn, slot).id = Latest.merge_block

\* The parts of C7 that do not depend on the types: the block that held
\* the tf.If is followed by three new blocks, then-block, else-block and
\* merge block in this order; it ends in a conditional branch on the
\* lowered condition, without operands, to the then-block and the
\* else-block; the op is gone.
IfBlocksInPlace ==
  LET e == Latest
      p == PosOf(pre.order, e.orig_block)
  IN /\ Len(fn.blocks) = Len(pre.blocks) + 3
     /\ {e.then_block, e.else_block, e.merge_block} \cap BlockIds(pre) = {}
     /\ fn.order = SubSeq(pre.order, 1, p)
                     \o <<e.then_block, e.else_block, e.merge_block>>
                     \o SubSeq(pre.order, p + 1, Len(pre.order))
     /\ Terminator(fn, e.orig_block).kind = "cond_br"
     /\ Terminator(fn, e.orig_block).operands = <<e.cond>>
     /\ Terminator(fn, e.orig_block).succs = <<e.then_block, e.else_block>>
     /\ Terminator(fn, e.orig_block).nTrue = 0
     /\ \A op \in AllOps(fn) : op.id # e.op

\* Block b is a call of the callee followed by a jump to the merge block.
CallThenJump(b, callee) ==
  /\ Kinds(fn, b) = <<"call", "br">>
  /\ fn.blocks[b].ops[1].fns = <<callee>>
  /\ fn.blocks[b].ops[2].succs = <<Latest.merge_block>>

\* Block b is a call of the callee and a jump to the merge block, with
\* nothing else but casts: those before the call are operands of the
\* call, those after it are operands of the jump.
CastsCallCastsJump(b, callee) ==
  LET ops == fn.blocks[b].ops
      n == Len(ops)
  IN /\ n >= 2
     /\ ops[n].kind = "br"
     /\ ops[n].succs = <<Latest.merge_block>>
     /\ \E c \in 1..(n - 1) :
          /\ ops[c].kind = "call"
          /\ ops[c].fns = <<callee>>
          /\ \A j \in 1..(c - 1) :
               /\ ops[j].kind = "tensor_cast"
               /\ \E k \in DOMAIN ops[c].operands : IsResultOf(ops[c].operands[k], ops[j].id)
          /\ \A j \in (c + 1)..(n - 1) :
               /\ ops[j].kind = "tensor_cast"
               /\ \E k \in DOMAIN ops[n].operands : IsResultOf(ops[n].operands[k], ops[j].id)

\* C7 (as claimed): the lowering of a tf.If with existing callees leaves the four blocks entry,
\* then, else, merge in this order, the entry ending in the conditional
\* branch, and the then-block and the else-block each consist of a call of
\* their callee followed by a jump to the merge block.
C7_IfBecomesCallAndJump ==
  (JustLowered("tf.If") /\ ~Latest.ub) =>
    /\ IfBlocksInPlace
    /\ CallThenJump(Latest.then_block, LoweredOp.fns[1])
    /\ CallThenJump(Latest.else_block, LoweredOp.fns[2])

\* C7 (amended): as above, but the then-block and the else-block hold,
\* besides the call and the jump, the casts of the call's arguments and of
\* its results whose types differ from the callee's input types and from
\* the merge block's argument types.
C7_IfBecomesCastsCallCastsJump ==
  JustLowered("tf.If") =>
    /\ IfBlocksInPlace
    /\ CastsCallCastsJump(Latest.then_block, LoweredOp.fns[1])
    /\ CastsCallCastsJump(Latest.else_block, LoweredOp.fns[2])

\* A tf.If has been lowered whose then-block holds a cast before its call
\* and a cast after it.
C7_Witness ==
  /\ JustLowered("tf.If")
  /\ IfBlocksInPlace
  /\ Kinds(fn, Latest.then_block) = <<"tensor_cast", "call", "tensor_cast", "br">>

\* The value handed to LowerCondition by the latest lowering: operand 0 of
\* a tf.If, result 0 of the call of the cond callee of a tf.While.
CondCallOf(e) ==
  CHOOSE op \in AllOps(fn) : op.kind = "call" /\ getBlock(fn, op.id) = e.cond_block

HasConditionValue ==
  /\ log # <<>>
  /\ Latest.status # "fault"
  /\ Latest.kind = "tf.While" => CondCallOf(Latest).results # <<>>

ConditionValue ==
  IF Latest.kind = "tf.If" THEN LoweredOp.operands[1]
  ELSE Res(CondCallOf(Latest).id, 1, CondCallOf(Latest).results[1])

\* C8: LowerCondition inserts exactly one extract_element and returns its
\* result if and only if the tensor is ranked, of rank 0 and of element
\* type i1; otherwise it reports the unsupported condition, returns null
\* and inserts nothing.
C8_LowerConditionIff ==
  HasConditionValue =>
    IF IsZeroDBool(ConditionValue.ty)
    THEN /\ CountOf(fn, "extract_element") = CountOf(pre, "extract_element") + 1
         /\ \E x \in NewOps : /\ x.kind = "extract_element"
                              /\ x.operands = <<ConditionValue>>
                              /\ Latest.cond = Res(x.id, 1, I1)
         /\ Latest.diag = <<>>
    ELSE /\ CountOf(fn, "extract_element") = CountOf(pre, "extract_element")
         /\ Latest.cond = Null
         /\ Latest.diag = <<UnsupportedCondition>>

\* LowerCondition has been given a ranked bool vector, an unranked bool
\* tensor, a zero-D i32 tensor (rejected) or a zero-D bool tensor (lowered).
C8_Witness ==
  /\ HasConditionValue
  /\ Latest.kind = "tf.While"
  /\ ConditionValue.ty = BoolUnranked
  /\ Latest.cond = Null

\* C9: the casts a lowering inserts are one per adapted value whose type
\* differs from its destination's and none for the others; and every
\* adapted value arrives with the destination's type: the operands of the
\* emitted calls, the operands of the emitted branches, and the values
\* that replace the results of the op.
Mismatches(src, dst) == Cardinality({i \in DOMAIN dst : src[i] # dst[i]})

ExpectedCasts ==
  LET op == LoweredOp
      f1 == module[op.fns[1]]
      f2 == module[op.fns[2]]
  IN IF op.kind = "tf.If"
     THEN Mismatches(TypesOf(Tail(op.operands)), f1.ins) + Mismatches(f1.outs, op.results)
          + Mismatches(TypesOf(Tail(op.operands)), f2.ins) + Mismatches(f2.outs, op.results)
     ELSE Mismatches(TypesOf(op.operands), f1.ins) + Mismatches(f1.ins, f2.ins)
          + Mismatches(f2.outs, f1.ins) + Mismatches(f2.ins, op.results)

EdgeOperands(op, k) ==
  IF op.kind = "br" THEN op.operands
  ELSE IF k = 1 THEN SubSeq(op.operands, 2, 1 + op.nTrue)
  ELSE SubSeq(op.operands, 2 + op.nTrue, Len(op.operands))

Adapted == log # <<>> /\ Latest.status = "success" /\ ~Latest.ub /\ ~Latest.af

C9_OneCastPerMismatch ==
  Adapted =>
    /\ CountOf(fn, "tensor_cast") = CountOf(pre, "tensor_cast") + ExpectedCasts
    /\ \A op \in NewOps :
         /\ op.kind = "tensor_cast" => op.operands[1].ty # op.results[1]
         /\ op.kind = "call" => TypesOf(op.operands) = module[op.fns[1]].ins
         /\ op.kind \in {"br", "cond_br"} =>
              \A k \in DOMAIN op.succs :
                 TypesOf(EdgeOperands(op, k)) = fn.blocks[op.succs[k]].args
    /\ \A slot \in Slots(pre) : \A i \in DOMAIN LoweredOp.results :
         SameValue(OperandAt(pre, slot), Res(Latest.op, i, NoType)) =>
            OperandAt(fn, slot).ty = LoweredOp.results[i]

\* A tf.While has been lowered with at least one cast, and with a used
\* result whose type differs from the tail argument's.
C9_Witness ==
  /\ Adapted
  /\ Latest.kind = "tf.While"
  /\ ExpectedCasts >= 1
  /\ \E slot \in Slots(fn) :
       /\ OperandAt(fn, slot).def = "res"
       /\ OpById(fn, OperandAt(fn, slot).id).kind = "tensor_cast"
       /\ getBlock(fn, slot[1]) = Latest.orig_block_tail

----------------------------------------------------------------------------
\* Executions, against the meaning of the structured ops of the input: a
\* tf.If is the then callee or the else callee applied to its data
\* operands, a tf.While is the body callee applied as many times as the
\* cond callee answered true.

Entered == IF run.st = "running" THEN Append(run.trace, run.cur) ELSE run.trace
Visits(b) == {p \in DOMAIN Entered : Entered[p] = b}
TrueAnswers(b) == Cardinality({i \in DOMAIN run.answers : run.answers[i] = <<b, TRUE>>})
EntryOf(opId) == log[CHOOSE i \in DOMAIN log : log[i].op = opId]
Apply(name, d) == [i \in DOMAIN d |-> Term(name, i, d)]

RECURSIVE Iterate(_, _, _)
Iterate(name, d, k) == IF k = 0 THEN d ELSE Iterate(name, Apply(name, d), k - 1)

RECURSIVE RefVal(_)
RECURSIVE RefResults(_)
RefResults(op) ==
  LET args == [k \in DOMAIN op.operands |-> RefVal(op.operands[k])]
  IN IF op.kind = "tf.If"
     THEN [i \in DOMAIN op.results |->
             Term(IF args[1] = TrueV THEN op.fns[1] ELSE op.fns[2], i, Tail(args))]
     ELSE Iterate(op.fns[2], args, TrueAnswers(EntryOf(op.id).cond_block))
RefVal(v) ==
  IF v.def = "arg" THEN run.env[Key(v)] ELSE RefResults(OpById(input, v.id))[v.idx]

IfEntries == {i \in DOMAIN log : log[i].kind = "tf.If" /\ log[i].status = "success"}
WhileEntries == {i \in DOMAIN log : log[i].kind = "tf.While" /\ log[i].status = "success"}

\* Control goes from block a to block b and nowhere else.
LeadsTo(a, b) == \A p \in Visits(a) : p < Len(Entered) => Entered[p + 1] = b

\* C4: in an execution of the lowered function, a true condition takes
\* control from the entry through the then-block to the merge block and
\* never into the else-block, a false one through the else-block and never
\* into the then-block; and when the callees match the op, argument i of
\* the merge block is result i of the callee that ran, called with the
\* data operands of the tf.If.
C4_IfExecution ==
  run.st # "idle" =>
    \A j \in IfEntries :
       LET e == log[j]
           op == OpById(input, e.op)
           taken == IF RefVal(op.operands[1]) = TrueV THEN e.then_block ELSE e.else_block
           other == IF RefVal(op.operands[1]) = TrueV THEN e.else_block ELSE e.then_block
       IN /\ RefVal(op.operands[1]) \in {TrueV, FalseV}
          /\ Visits(other) = {}
          /\ LeadsTo(e.orig_block, taken)
          /\ LeadsTo(taken, e.merge_block)
          /\ \A p \in Visits(e.merge_block) : p > 2 /\ Entered[p - 1] = taken
                                                    /\ Entered[p - 2] = e.orig_block
          /\ (EligibleOp(op) /\ Visits(e.merge_block) # {}) =>
                Read(run.env, getArguments(fn, e.merge_block)) = RefResults(op)

\* An execution has gone through the then-block of a lowered tf.If that
\* has data operands and results, and on to its merge block.
C4_Witness ==
  /\ run.st = "returned"
  /\ \E j \in IfEntries :
       /\ EligibleOp(OpById(input, log[j].op))
       /\ OpById(input, log[j].op).results # <<>>
       /\ Visits(log[j].then_block) # {}
       /\ Visits(log[j].merge_block) # {}
       /\ Read(run.env, getArguments(fn, log[j].merge_block))[1].f = "then_fn"

\* k rounds of cond-block and body-block.
RECURSIVE Rounds(_, _, _)
Rounds(c, b, k) == IF k = 0 THEN <<>> ELSE <<c, b>> \o Rounds(c, b, k - 1)

\* C5: in a finished execution of the lowered function, if the cond
\* callee of a tf.While answered true k times and then false, control went
\* head, k times (cond-block, body-block), cond-block, tail; the
\* body-block was entered k times; and the tail is the target of nothing
\* but the false edge of the cond-block's branch.
C5_WhileExecution ==
  run.st = "returned" =>
    \A j \in WhileEntries :
       LET e == log[j]
           k == TrueAnswers(e.cond_block)
           p == CHOOSE q \in Visits(e.orig_block) : TRUE
       IN /\ Cardinality(Visits(e.orig_block)) = 1
          /\ p + 2 * k + 2 <= Len(Entered)
          /\ SubSeq(Entered, p, p + 2 * k + 2) =
               <<e.orig_block>> \o Rounds(e.cond_block, e.body_block, k)
                                \o <<e.cond_block, e.orig_block_tail>>
          /\ Cardinality(Visits(e.body_block)) = k
          /\ Cardinality(Visits(e.cond_block)) = k + 1
          /\ Cardinality(Visits(e.orig_block_tail)) = 1
          /\ SelectSeq(run.answers, LAMBDA a : a[1] = e.cond_block) =
               [i \in 1..(k + 1) |-> <<e.cond_block, i <= k>>]
          /\ \A op \in AllOps(fn) : \A s \in DOMAIN op.succs :
               op.succs[s] = e.orig_block_tail =>
                  op.kind = "cond_br" /\ s = 2 /\ getBlock(fn, op.id) = e.cond_block

\* A finished execution in which the body-block of a lowered tf.While was
\* entered twice.
C5_Witness ==
  /\ run.st = "returned"
  /\ \E j \in WhileEntries : Cardinality(Visits(log[j].body_block)) = 2

----------------------------------------------------------------------------
\* Well-formed blocks and edges.

\* Block b of f has exactly one terminator, and it is the last operation.
WellTerminated(f, b) ==
  LET ops == f.blocks[b].ops
  IN /\ ops # <<>>
     /\ IsTerminator(ops[Len(ops)])
     /\ \A i \in 1..(Len(ops) - 1) : ~IsTerminator(ops[i])

Completed == {i \in DOMAIN log : log[i].status = "success"}

\* C11: the input's blocks each have exactly one terminator, placed last;
\* after each completed lowering, and so when the Driver has finished, every
\* block of the function has exactly one terminator, placed last: the
\* block that held the op, the three new blocks, and all the others.
C11_BlocksStayTerminated ==
  /\ \A b \in BlockIds(input) : WellTerminated(input, b)
  /\ (log # <<>> /\ Latest.status = "success") =>
        \A b \in BlockIds(fn) : WellTerminated(fn, b)
  /\ pc = "success" => \A b \in BlockIds(fn) : WellTerminated(fn, b)

\* A tf.If and a tf.While of a two-block function have been lowered: eight
\* blocks, each ending in its only terminator.
C11_Witness ==
  /\ pc = "success"
  /\ {log[i].kind : i \in Completed} = {"tf.If", "tf.While"}
  /\ Len(input.blocks) = 2
  /\ Len(fn.blocks) = 8
  /\ \A b \in BlockIds(fn) : WellTerminated(fn, b)

\* The loop shape precondition of a tf.While: body result types = body
\* parameter types = cond parameter types = result types of the op; of a
\* tf.If: both callees return as many values as the op has results.
LoopShape(op) ==
  LET f1 == module[op.fns[1]]
      f2 == module[op.fns[2]]
  IN /\ f1.present /\ f2.present
     /\ IF op.kind = "tf.If"
        THEN Len(f1.outs) = Len(op.results) /\ Len(f2.outs) = Len(op.results)
        ELSE f2.outs = f2.ins /\ f2.ins = f1.ins /\ f1.ins = op.results

\* The edges of the branches a lowering emitted: <<branch, successor index>>.
NewEdges ==
  UNION {{<<op, k>> : k \in DOMAIN op.succs} :
           op \in {x \in NewOps : x.kind \in {"br", "cond_br"}}}

WellTypedEdge(e) == TypesOf(EdgeOperands(e[1], e[2])) = fn.blocks[e[1].succs[e[2]]].args

\* C12: after a completed lowering of an op that meets the loop shape
\* precondition, every edge of every branch the lowering emitted carries
\* as many operands as its target block has arguments, operand i of the
\* type of argument i: two edges without operands and two jumps to the
\* merge block for a tf.If; head->cond, cond->body, cond->tail and
\* body->cond for a tf.While.
C12_EdgesMatchBlockArguments ==
  (log # <<>> /\ Latest.status = "success" /\ LoopShape(LoweredOp)) =>
     /\ \A e \in NewEdges : WellTypedEdge(e)
     /\ Cardinality(NewEdges) = 4
     /\ {<<getBlock(fn, e[1].id), e[1].succs[e[2]]>> : e \in NewEdges} =
          IF Latest.kind = "tf.If"
          THEN {<<Latest.orig_block, Latest.then_block>>,
                <<Latest.orig_block, Latest.else_block>>,
                <<Latest.then_block, Latest.merge_block>>,
                <<Latest.else_block, Latest.merge_block>>}
          ELSE {<<Latest.orig_block, Latest.cond_block>>,
                <<Latest.cond_block, Latest.body_block>>,
                <<Latest.cond_block, Latest.orig_block_tail>>,
                <<Latest.body_block, Latest.cond_block>>}

\* A tf.While of loop shape has been lowered whose operand, of another type
\* than the cond block's argument, reaches the cond block through a cast.
C12_Witness ==
  /\ JustLowered("tf.While")
  /\ LoopShape(LoweredOp)
  /\ LoweredOp.operands # <<>>
  /\ LoweredOp.operands[1].ty # module["cond_fn"].ins[1]
  /\ \A e \in NewEdges : WellTypedEdge(e)
  /\ \E op \in NewOps : op.kind = "tensor_cast" /\ getBlock(fn, op.id) = Latest.orig_block

----------------------------------------------------------------------------
\* The loop and its control flow graph.

\* Value v is argument i of block b, directly or through one cast, placed
\* in b, to type ty.
ReadsArgument(v, b, i, ty) ==
  LET a == Arg(b, i, fn.blocks[b].args[i])
  IN IF a.ty = ty THEN v = a
     ELSE /\ v.def = "res" /\ v.ty = ty
          /\ \E c \in AllOps(fn) : /\ c.id = v.id
                                   /\ c.kind = "tensor_cast"
                                   /\ c.operands = <<a>>
                                   /\ getBlock(fn, c.id) = b

ReturnOp(f) == CHOOSE op \in AllOps(f) : op.kind = "return"

\* C13: the control flow graph of a lowered tf.While refines the loop.
\* When the cond callee has answered true k times and then false, the
\* arguments of the tail on entry are the body callee applied k times to
\* the operands of the op, no fewer and no more; every operand slot that
\* referenced result i of the op references argument i of the tail,
\* adapted to the result's type; and the function returns what the
\* structured function returns.
C13_WhileRefinesLoop ==
  /\ (run.st # "idle" /\ Eligible) =>
        \A j \in WhileEntries :
           Visits(log[j].orig_block_tail) # {} =>
              Read(run.env, getArguments(fn, log[j].orig_block_tail)) =
                 RefResults(OpById(input, log[j].op))
  /\ (JustLowered("tf.While") /\ EligibleOp(LoweredOp)) =>
        \A slot \in Slots(pre) : \A i \in DOMAIN LoweredOp.results :
           SameValue(OperandAt(pre, slot), Res(Latest.op, i, NoType)) =>
              ReadsArgument(OperandAt(fn, slot), Latest.orig_block_tail, i,
                            LoweredOp.results[i])
  /\ (run.st = "returned" /\ Eligible) =>
        run.out = [i \in DOMAIN ReturnOp(input).operands |->
                     RefVal(ReturnOp(input).operands[i])]

\* An execution has left a lowered loop after two rounds: the tail's
\* argument is the body callee applied twice to the function's input.
C13_Witness ==
  /\ run.st = "returned"
  /\ Eligible
  /\ \E j \in WhileEntries :
       /\ TrueAnswers(log[j].cond_block) = 2
       /\ Read(run.env, getArguments(fn, log[j].orig_block_tail)) =
            <<Term("body_fn", 1, <<Term("body_fn", 1, <<Term("in", 2, <<>>)>>)>>)>>
       /\ run.out = Read(run.env, getArguments(fn, log[j].orig_block_tail))

\* The conditional branch that ends the cond block of the latest lowering.
CondBr == Terminator(fn, Latest.cond_block)

\* C14: after the lowering of a tf.While whose callees exist, the cond
\* block's argument types are the cond callee's parameter types, the body
\* block's and the tail's are both the body callee's parameter types, and
\* the false edge of the cond block's conditional branch, to the tail,
\* carries one operand per argument of the tail, operand i of the type of
\* argument i, although the operands were prepared against the body block:
\* the two edges carry the same operands.
C14_WhileBlockArguments ==
  (JustLowered("tf.While") /\ ~HasAbsentCallee(LoweredOp)) =>
     /\ fn.blocks[Latest.cond_block].args = module[LoweredOp.fns[1]].ins
     /\ fn.blocks[Latest.body_block].args = module[LoweredOp.fns[2]].ins
     /\ fn.blocks[Latest.orig_block_tail].args = module[LoweredOp.fns[2]].ins
     /\ CondBr.kind = "cond_br"
     /\ CondBr.succs = <<Latest.body_block, Latest.orig_block_tail>>
     /\ TypesOf(EdgeOperands(CondBr, 2)) = fn.blocks[Latest.orig_block_tail].args
     /\ EdgeOperands(CondBr, 2) = EdgeOperands(CondBr, 1)

\* A tf.While has been lowered whose cond callee and body callee take one
\* parameter each, of different types: the operand of the false edge is a
\* cast of the cond block's argument.
C14_Witness ==
  /\ JustLowered("tf.While")
  /\ ~HasAbsentCallee(LoweredOp)
  /\ Len(module["cond_fn"].ins) = 1
  /\ Len(module["body_fn"].ins) = 1
  /\ module["cond_fn"].ins # module["body_fn"].ins
  /\ EdgeOperands(CondBr, 2)[1].def = "res"
  /\ OpById(fn, EdgeOperands(CondBr, 2)[1].id).kind = "tensor_cast"
  /\ OpById(fn, EdgeOperands(CondBr, 2)[1].id).operands =
       <<Arg(Latest.cond_block, 1, module["cond_fn"].ins[1])>>

----------------------------------------------------------------------------
\* Faults and failures.

\* C15 (as claimed): ReplaceOpResultWithBlockArgs, given a block whose
\* argument count differs from the op's result count, stops the process
\* with a fault, which is not the pass failure, before any use is
\* rewritten. In the lowering of a tf.While (whose callees exist, whose
\* cond callee returns one zero-D bool tensor, and whose other counts
\* match, so that it is reached) this happens
\* exactly when the body callee's parameter count differs from the op's
\* result count; in the lowering of a tf.If it never happens.
C15_ResultCountMismatchFaults ==
  \A i \in DOMAIN log :
     LET e == log[i]
         op == OpById(input, e.op)
     IN /\ e.kind = "tf.If" => ~e.af
        /\ (/\ e.kind = "tf.While"
            /\ ~HasAbsentCallee(op)
            /\ Len(module[op.fns[1]].outs) = 1
            /\ IsZeroDBool(module[op.fns[1]].outs[1])
            /\ Len(module[op.fns[1]].ins) <= Len(op.operands)
            /\ Len(module[op.fns[2]].ins) <= Len(module[op.fns[1]].ins)
            /\ Len(module[op.fns[2]].outs) >= Len(module[op.fns[1]].ins)) =>
              /\ e.af <=> Len(module[op.fns[2]].ins) # Len(op.results)
              /\ e.af => /\ e.status = "fault"
                         /\ i = Len(log)
                         /\ pc = "fault"
                         /\ fn = pre

\* The structured ops of f, by id and kind.
Pending(f) == {<<op.id, op.kind>> : op \in StructuredOps(f)}

\* The blocks a completed lowering created.
CreatedBy(e) ==
  IF e.kind = "tf.If" THEN {e.then_block, e.else_block, e.merge_block}
  ELSE {e.cond_block, e.body_block, e.orig_block_tail}

\* C16: a lowering that returns failure is the last lowering of the run and
\* the pass is failed from then on. Nothing is rolled back: the lowerings
\* before it all completed, their three blocks each are still in the
\* function and their ops are still gone. The failing op and every
\* structured op after it are still in the function, unlowered.
C16_FailureStopsDriver ==
  \A i \in DOMAIN log :
     log[i].status = "failure" =>
        /\ i = Len(log)
        /\ pc = "failure"
        /\ run = Idle
        /\ \A j \in 1..(i - 1) :
             /\ log[j].status = "success"
             /\ CreatedBy(log[j]) \subseteq {fn.order[k] : k \in DOMAIN fn.order}
             /\ \A b \in CreatedBy(log[j]) : fn.blocks[b].ops # <<>>
        /\ Len(fn.order) = Len(input.order) + 3 * (i - 1)
        /\ Pending(fn) = {x \in Pending(input) : \A j \in 1..(i - 1) : x[1] # log[j].op}
        /\ <<log[i].op, log[i].kind>> \in Pending(fn)

\* The pass has failed on a tf.If after it had lowered a tf.While, whose
\* blocks are still there.
C16_Witness ==
  /\ pc = "failure"
  /\ Len(log) = 2
  /\ log[1].kind = "tf.While" /\ log[1].status = "success"
  /\ log[2].kind = "tf.If" /\ log[2].status = "failure"
  /\ Len(fn.order) = Len(input.order) + 3
  /\ Pending(fn) = {<<log[2].op, "tf.If">>}

\* C17: when the lowering of a tf.If fails on its condition, the
\* function is as it was when the lowering was entered: the same blocks
\* in the same order with the same arguments and operations, no new
\* operation, and the op still there with its operands and results. The
\* only effect is the diagnostic.
C17_FailedIfLeavesFunction ==
  (log # <<>> /\ Latest.status = "failure") =>
     /\ Latest.kind = "tf.If"
     /\ ~IsZeroDBool(LoweredOp.operands[1].ty)
     /\ Latest.diag = <<UnsupportedCondition>>
     /\ fn = pre
     /\ NewOps = {}
     /\ LoweredOp \in AllOps(fn)
     /\ \A slot \in Slots(pre) : OperandAt(fn, slot) = OperandAt(pre, slot)

\* The lowering of a tf.If with an unranked condition, data operands and
\* used results has failed.
C17_Witness ==
  /\ log # <<>>
  /\ Latest.status = "failure"
  /\ LoweredOp.operands[1].ty = BoolUnranked
  /\ Len(LoweredOp.operands) > 1
  /\ \E slot \in Slots(fn) : IsResultOf(OperandAt(fn, slot), Latest.op)
  /\ fn = pre

----------------------------------------------------------------------------
\* The frame of a lowering.

\* The last of the three blocks of the latest lowering: merge block or tail.
RestBlock == IF Latest.kind = "tf.If" THEN Latest.merge_block ELSE Latest.orig_block_tail
PreOps == pre.blocks[Latest.orig_block].ops
OpIndex == IndexIn(PreOps, Latest.op)
OldOps(b) == SelectSeq(fn.blocks[b].ops, LAMBDA op : op.id < pre.nextOp)

\* Operation new is operation old, except that operands that were results
\* of the lowered op are other values now.
SameButUses(old, new) ==
  /\ [new EXCEPT !.operands = <<>>] = [old EXCEPT !.operands = <<>>]
  /\ DOMAIN new.operands = DOMAIN old.operands
  /\ \A k \in DOMAIN old.operands :
       IF IsResultOf(old.operands[k], Latest.op)
       THEN ~IsResultOf(new.operands[k], Latest.op)
       ELSE new.operands[k] = old.operands[k]

\* Three blocks more, placed right after the block that held the op, merge
\* block or tail last; the operations before the op are still the first
\* operations of that block, in order; those after it are, in order, the
\* last operations of the merge block or tail.
SplitInPlace ==
  LET p == PosOf(pre.order, Latest.orig_block)
  IN /\ Len(fn.blocks) = Len(pre.blocks) + 3
     /\ Len(fn.order) = Len(pre.order) + 3
     /\ SubSeq(fn.order, 1, p) = SubSeq(pre.order, 1, p)
     /\ SubSeq(fn.order, p + 4, Len(fn.order)) = SubSeq(pre.order, p + 1, Len(pre.order))
     /\ fn.order[p + 3] = RestBlock
     /\ {fn.order[p + 1], fn.order[p + 2], fn.order[p + 3]} =
          (Len(pre.blocks) + 1)..(Len(pre.blocks) + 3)
     /\ Len(fn.blocks[Latest.orig_block].ops) >= OpIndex - 1
     /\ SubSeq(fn.blocks[Latest.orig_block].ops, 1, OpIndex - 1) =
          SubSeq(PreOps, 1, OpIndex - 1)
     /\ OldOps(Latest.orig_block) = SubSeq(PreOps, 1, OpIndex - 1)
     /\ Len(OldOps(RestBlock)) = Len(PreOps) - OpIndex
     /\ \A k \in 1..(Len(PreOps) - OpIndex) :
          /\ SameButUses(PreOps[OpIndex + k], OldOps(RestBlock)[k])
          /\ fn.blocks[RestBlock].ops[Len(fn.blocks[RestBlock].ops) - Len(PreOps) + OpIndex + k]
               = OldOps(RestBlock)[k]

OtherBlocks == BlockIds(pre) \ {Latest.orig_block}

\* C18 (as claimed): each successful lowering (here: one that met no
\* undefined behaviour) adds exactly three blocks,
\* splits the block that held the op as described, and leaves every other
\* block of the function with its position, arguments and operations
\* unchanged.
C18_LoweringTouchesOneBlock ==
  Adapted =>
     /\ SplitInPlace
     /\ \A b \in OtherBlocks : fn.blocks[b] = pre.blocks[b]

\* C18 (amended): as above, but in the other blocks the operands that were
\* results of the lowered op have been replaced; the blocks keep their
\* position, their arguments, their operations and all other operands.
C18_LoweringRewritesUsesElsewhere ==
  (log # <<>> /\ Latest.status = "success") =>
     /\ SplitInPlace
     /\ \A b \in OtherBlocks :
          /\ fn.blocks[b].args = pre.blocks[b].args
          /\ Len(fn.blocks[b].ops) = Len(pre.blocks[b].ops)
          /\ \A k \in DOMAIN pre.blocks[b].ops :
               SameButUses(pre.blocks[b].ops[k], fn.blocks[b].ops[k])

\* A structured op in the first of two blocks has been lowered, and an
\* operation of the second block that used its result uses another value.
C18_Witness ==
  /\ log # <<>>
  /\ Latest.status = "success"
  /\ Len(pre.order) = 2
  /\ Latest.orig_block = pre.order[1]
  /\ SplitInPlace
  /\ \E k \in DOMAIN pre.blocks[pre.order[2]].ops :
       /\ \E o \in DOMAIN pre.blocks[pre.order[2]].ops[k].operands :
            IsResultOf(pre.blocks[pre.order[2]].ops[k].operands[o], Latest.op)
       /\ fn.blocks[pre.order[2]].ops[k] # pre.blocks[pre.order[2]].ops[k]

----------------------------------------------------------------------------
\* Operands.

\* Value v is an argument of a block of f or a result of an operation of f.
ValueExists(f, v) ==
  \/ /\ v.def = "arg"
     /\ v.id \in BlockIds(f)
     /\ v.idx \in DOMAIN f.blocks[v.id].args
  \/ /\ v.def = "res"
     /\ \E op \in AllOps(f) : op.id = v.id /\ v.idx \in DOMAIN op.results

\* The callees of op exist and take and return as many values as op hands
\* them and expects of them.
CountsMatch(op) ==
  IF op.kind = "tf.If"
  THEN /\ MatchingCallee(op.fns[1], Len(op.operands) - 1, Len(op.results))
       /\ MatchingCallee(op.fns[2], Len(op.operands) - 1, Len(op.results))
  ELSE /\ MatchingCallee(op.fns[1], Len(op.operands), 1)
       /\ MatchingCallee(op.fns[2], Len(op.operands), Len(op.operands))
       /\ Len(op.results) = Len(op.operands)

\* C19 (as claimed): after a lowering that returned success (of an op whose
\* callees exist with matching counts), every operand of every operation
\* of the function is an existing value, the condition of each conditional
\* branch included: none is null, none is a result of the erased op.
C19_OperandsReferToValues ==
  (log # <<>> /\ Latest.status = "success" /\ CountsMatch(LoweredOp)) =>
     \A slot \in Slots(fn) :
        /\ OperandAt(fn, slot) # Null
        /\ ValueExists(fn, OperandAt(fn, slot))
        /\ ~IsResultOf(OperandAt(fn, slot), Latest.op)

====
